---- MODULE Spec2Model ----
(***************************************************************************)
(* The option ordering engine of votes/models.py (JacobsAlumni/jay).       *)
(*                                                                         *)
(* The persisted state is the Option table (rows keyed by id, with the     *)
(* (vote, number) uniqueness of Option.Meta), the Vote rows (min_votes,    *)
(* max_votes) and each Vote's Status.stage.  The in-memory state is what   *)
(* the callers hold: one Vote object per Vote (the `self` of every         *)
(* method) and at most one Option object per row (the `option` argument of *)
(* deleteOption / moveDownOption / moveUpOption).  Every method of Vote is *)
(* one action: it runs inside transaction.atomic, so its writes are either *)
(* all committed or all rolled back, while its assignments to the objects  *)
(* in memory stay whatever the outcome.                                    *)
(***************************************************************************)
EXTENDS Integers, Sequences, FiniteSets, TLC

\* ---------------------------------------------------------------- bounds
\* Primary keys ever handed out by the Option table (rows created in all).
MaxId == 3
\* Rows present when the model starts (bulk-loaded Options).
MaxInit == 2

Votes == {1, 2}
\* The Votes whose methods the callers invoke; the others only own rows.
Edited == {1}
Ids == 1..MaxId
\* Option.id of an object whose row was deleted through it (pk set to None).
None == 0
\* No Option object loaded for a row.
NoObj == [id |-> None, vote |-> 0, number |-> 0, name |-> "", count |-> 0]
\* The Option object o after o.delete(): its pk is None.  No method reads
\* another field of an object without a pk (each raises ValueError at its
\* first test), so only the object's Vote is kept beside it.
delete(o) == [NoObj EXCEPT !.vote = o.vote]

\* Status.INIT .. Status.PUBLIC, in the order of Status.STAGES.
STAGES == <<"I", "S", "O", "C", "P">>
INIT == STAGES[1]

VARIABLES
    options,   \* the Option table: a set of rows [id, vote, number, name, count]
    votes,     \* the Vote table: votes[v] = [min_votes, max_votes]
    stage,     \* stage[v]: Status.stage of the Status row of Vote v
    self,      \* self[v]: the Vote object in memory, [min_votes, max_votes]
    objs,      \* objs[i]: the Option object the caller loaded for row i, or NoObj
    nextId,    \* the next primary key of the Option table
    last,      \* the Vote method call that led to this state and how it ended
    pending    \* the transaction of a second caller that has begun, or NoTxn

vars == <<options, votes, stage, self, objs, nextId, last, pending>>

\* -------------------------------------------------------------- the store
\* self.option_set
option_set(db, v) == {r \in db : r.vote = v}

\* The ids of every row of the table, whatever its Vote.
values_list_id_all(db, v) == {r.id : r \in db}

\* self.option_set.values_list('id', flat=True)
values_list_id(db, v) == {r.id : r \in option_set(db, v)}

\* self.option_set.count()
count(db, v) == Cardinality(option_set(db, v))

\* The row with the largest number: the order of order_by("-number").
MaxRow(S) == CHOOSE r \in S : \A q \in S : r.number >= q.number

\* The row with the smallest number of a non-empty set of rows.
MinRow(S) == CHOOSE r \in S : \A q \in S : r.number <= q.number

\* self.option_set.order_by("number")
RECURSIVE order_by_number(_)
order_by_number(S) ==
    IF S = {} THEN <<>>
    ELSE <<MinRow(S)>> \o order_by_number(S \ {MinRow(S)})

\* unique_together = (("vote", "number")): another row of the same vote holds
\* the number the object o is about to write.
unique_together(db, o) ==
    \E r \in db : r.id # o.id /\ r.vote = o.vote /\ r.number = o.number

\* A transaction in progress: the table as its statements left it, the
\* exception that ended it ("none" while it runs) and its writes so far.
Begin(db) == [err |-> "none", db |-> db, writes |-> 0]

\* A save() that writes the default tally, 0, in place of the object's.
saveDefaultCount(t, o) ==
    IF t.err # "none" THEN t
    ELSE IF unique_together(t.db, o) THEN [t EXCEPT !.err = "IntegrityError"]
    ELSE [t EXCEPT !.db = {r \in t.db : r.id # o.id} \cup {[o EXCEPT !.count = 0]},
                   !.writes = @ + 1]

\* Model.save() on an Option object: every field of the object is written to
\* the row of its id (inserted if absent); IntegrityError on a duplicate
\* (vote, number).  Nothing runs after an exception.
save(t, o) ==
    IF t.err # "none" THEN t
    ELSE IF unique_together(t.db, o) THEN [t EXCEPT !.err = "IntegrityError"]
    ELSE [t EXCEPT !.db = {r \in t.db : r.id # o.id} \cup {o},
                   !.writes = @ + 1]

\* The loop numbering from 1: enumerate(..., 1).
RECURSIVE renumberLoopFromOne(_, _, _)
renumberLoopFromOne(t, seq, i) ==
    IF i > Len(seq) THEN t
    ELSE renumberLoopFromOne(save(t, [seq[i] EXCEPT !.number = i]), seq, i + 1)

\* The loop with "v.number += i" for "v.number = i".
RECURSIVE renumberLoopAdd(_, _, _)
renumberLoopAdd(t, seq, i) ==
    IF i > Len(seq) THEN t
    ELSE renumberLoopAdd(save(t, [seq[i] EXCEPT !.number = @ + i - 1]), seq, i + 1)

\* The loop of renumberOptions over the rows seq fetched before the loop:
\* the i-th row in ascending number gets number i-1 and is saved.
RECURSIVE renumberLoop(_, _, _)
renumberLoop(t, seq, i) ==
    IF i > Len(seq) THEN t
    ELSE renumberLoop(save(t, [seq[i] EXCEPT !.number = i - 1]), seq, i + 1)

\* renumberOptions left out of a method.
renumberSkipped(t, v) == t

\* The body of Vote.renumberOptions inside a running transaction.
renumber(t, v) ==
    IF t.err # "none" THEN t
    ELSE renumberLoop(t, order_by_number(option_set(t.db, v)), 1)

\* The transaction left out: what the statements wrote stays.
atomicNoRollback(t, pre, post) == post

\* @transaction.atomic: what a table is after the transaction t: post, what
\* its statements made of it, if it returned; pre, what it was, if it raised.
atomic(t, pre, post) == IF t.err = "none" THEN post ELSE pre

\* The record of a call: the method, the exception raised ("none" if it
\* returned) and the number of writes it made before it ended.
Call(op, t) == [op |-> op, err |-> t.err, writes |-> t.writes]

\* No method call led to this state.
NoCall == [op |-> "none", err |-> "none", writes |-> 0]

\* No transaction of a second caller is in progress.
NoTxn ==
    [op |-> "none", vote |-> 0, rows |-> <<>>,
     start |-> [options |-> {}, votes |-> <<>>, nextId |-> 0]]

\* An exception raised by the method's own code in the transaction t.
raise(t, e) == [t EXCEPT !.err = e]

\* canBeModified with the STAGED Votes let through.
canBeModifiedUntilOpen(v) == stage[v] \in {"I", "S"}

\* Vote.canBeModified
canBeModified(v) == stage[v] = INIT

\* ------------------------------------------------------------ initial state
\* Bulk-loaded Options: a name and a tally the engine never assigns itself.
InitName(i) == "Candidate " \o ToString(i)
InitCount(i) == 10 * i

\* 0 <= min_votes <= max_votes <= n
Bounded(m, n) == 0 <= m.min_votes /\ m.min_votes <= m.max_votes /\ m.max_votes <= n

\* The numbers of the rows of Vote v are exactly 0 .. count-1.
Contiguous(db, v) == {r.number : r \in option_set(db, v)} = 0..(count(db, v) - 1)

\* No two rows of a Vote share a number.
Unique(db) == \A r, q \in db : r.vote = q.vote /\ r.number = q.number => r = q

\* The subsets of Nums with n elements.
Choices(Nums, n) == {S \in SUBSET Nums : Cardinality(S) = n}

\* The k-th smallest element of the set of numbers S.
RECURSIVE Nth(_, _)
Nth(S, k) ==
    LET m == CHOOSE x \in S : \A y \in S : x <= y
    IN IF k = 1 THEN m ELSE Nth(S \ {m}, k - 1)

\* The rows ids lo+1 .. lo+Cardinality(S) of Vote v, loaded in the order of
\* their numbers S.
Loaded(v, lo, S) ==
    {[id |-> lo + k, vote |-> v, number |-> Nth(S, k),
      name |-> InitName(lo + k), count |-> InitCount(lo + k)]
     : k \in 1..Cardinality(S)}

\* Tables of MaxInit rows: the rows of Vote 1, with pairwise distinct numbers
\* of Nums, then those of Vote 2, numbered from 0.
InitTables(Nums) ==
    UNION { { Loaded(1, 0, S1) \cup Loaded(2, n1, 0..(MaxInit - n1 - 1))
              : S1 \in Choices(Nums, n1) }
            : n1 \in 0..MaxInit }

InitWith(Nums) ==
    /\ options \in InitTables(Nums)
    /\ votes \in [Votes -> [min_votes : 0..MaxInit, max_votes : 0..MaxInit]]
    /\ \A v \in Votes : Bounded(votes[v], count(options, v))
    /\ \A v \in Votes \ Edited : votes[v].min_votes = 0
    /\ stage = [v \in Votes |-> INIT]
    /\ self = votes
    /\ objs = [i \in Ids |-> NoObj]
    /\ nextId = Cardinality(options) + 1
    /\ last = NoCall
    /\ pending = NoTxn

\* Every Vote starts numbered 0 .. n-1.
Init == InitWith(0..(MaxInit - 1)) /\ \A v \in Votes : Contiguous(options, v)

\* The numbers of Vote 1 were tampered with from outside (admin site, bulk
\* load): gaps, and numbers below 0.
InitDrift == InitWith((0 - 1)..MaxInit)

\* ---------------------------------------------------------------- methods
\* Vote.renumberOptions, called by itself.
renumberOptions(v) ==
    LET t == renumber(Begin(options), v)
    IN /\ options' = atomic(t, options, t.db)
       /\ last' = Call("renumberOptions", t)
       /\ UNCHANGED <<votes, stage, self, objs, nextId, pending>>

\* clamp with the test of min_votes left out.
clampMaxOnly(m, n) ==
    [min_votes |-> m.min_votes,
     max_votes |-> IF m.max_votes > n THEN n ELSE m.max_votes]

\* deleteOption lowers min_votes and max_votes of the Vote object m to n.
clamp(m, n) ==
    [min_votes |-> IF m.min_votes > n THEN n ELSE m.min_votes,
     max_votes |-> IF m.max_votes > n THEN n ELSE m.max_votes]

\* Vote.deleteOption(option) with the Option object loaded for row i.
deleteOption(v, i) ==
    /\ objs[i] # NoObj
    /\ LET option == objs[i]
           deleted == {r \in options : r.id # option.id}
           me == clamp(self[v], count(deleted, v))
           t == renumber([Begin(deleted) EXCEPT !.writes = 2], v)
       IN IF option.id \notin values_list_id(options, v)
          THEN /\ last' = Call("deleteOption", raise(Begin(options), "ValueError"))
               /\ UNCHANGED <<options, votes, self, objs>>
          ELSE /\ options' = atomic(t, options, t.db)
               /\ votes' = atomic(t, votes, [votes EXCEPT ![v] = me])
               /\ self' = [self EXCEPT ![v] = me]
               /\ objs' = [objs EXCEPT ![i] = delete(option)]
               /\ last' = Call("deleteOption", t)
    /\ UNCHANGED <<stage, nextId, pending>>

\* The name built from num instead of num + 1.
OptionNameOffByOne(num) == "Option #" \o ToString(num)

\* "Option #" + str(num + 1)
OptionName(num) == "Option #" \o ToString(num + 1)

\* Vote.addOption
addOption(v) ==
    /\ nextId <= MaxId
    /\ LET t1 == renumber(Begin(options), v)
           num == count(t1.db, v)
           opt == [id |-> nextId, vote |-> v, number |-> num,
                   name |-> OptionName(num), count |-> 0]
           t == save(t1, opt)
       IN /\ options' = atomic(t, options, t.db)
          /\ nextId' = atomic(t, nextId, nextId + 1)
          /\ last' = Call("addOption", t)
    /\ UNCHANGED <<votes, stage, self, objs, pending>>

\* self.option_set.filter(number=n): the rows of Vote v numbered n.
filter_number(db, v, n) == {r \in option_set(db, v) : r.number = n}

\* "if option.number == 0": the object is at the bottom.
atBottom(option) == option.number = 0

\* The test of moveUpOption with the "- 1" left out.
atTopOffByOne(db, v, option) == option.number = count(db, v)

\* "if option.number == self.option_set.count() - 1": the object is at the top.
atTop(db, v, option) == option.number = count(db, v) - 1

\* Vote.moveDownOption(option) with the Option object loaded for row i.
moveDownOption(v, i) ==
    /\ objs[i] # NoObj
    /\ LET option == objs[i]
           t1 == renumber(Begin(options), v)
           found == filter_number(t1.db, v, option.number - 1)
           below == [(CHOOSE r \in found : TRUE) EXCEPT !.number = option.number]
           moved == [option EXCEPT !.number = option.number - 1]
           t == save(save(t1, below), moved)
       IN IF option.id \notin values_list_id(options, v)
          THEN /\ last' = Call("moveDownOption", raise(Begin(options), "ValueError"))
               /\ UNCHANGED <<options, objs>>
          ELSE IF t1.err # "none" \/ atBottom(option)
          THEN /\ options' = atomic(t1, options, t1.db)
               /\ last' = Call("moveDownOption", t1)
               /\ UNCHANGED objs
          ELSE IF found = {}
          THEN /\ last' = Call("moveDownOption", raise(t1, "IndexError"))
               /\ UNCHANGED <<options, objs>>
          ELSE /\ options' = atomic(t, options, t.db)
               /\ objs' = [objs EXCEPT ![i] = moved]
               /\ last' = Call("moveDownOption", t)
    /\ UNCHANGED <<votes, stage, self, nextId, pending>>

\* Vote.moveUpOption(option) with the Option object loaded for row i.
moveUpOption(v, i) ==
    /\ objs[i] # NoObj
    /\ LET option == objs[i]
           t1 == renumber(Begin(options), v)
           found == filter_number(t1.db, v, option.number + 1)
           above == [(CHOOSE r \in found : TRUE) EXCEPT !.number = option.number]
           moved == [option EXCEPT !.number = option.number + 1]
           t == save(save(t1, above), moved)
       IN IF option.id \notin values_list_id(options, v)
          THEN /\ last' = Call("moveUpOption", raise(Begin(options), "ValueError"))
               /\ UNCHANGED <<options, objs>>
          ELSE IF t1.err # "none" \/ atTop(t1.db, v, option)
          THEN /\ options' = atomic(t1, options, t1.db)
               /\ last' = Call("moveUpOption", t1)
               /\ UNCHANGED objs
          ELSE IF found = {}
          THEN /\ last' = Call("moveUpOption", raise(t1, "IndexError"))
               /\ UNCHANGED <<options, objs>>
          ELSE /\ options' = atomic(t, options, t.db)
               /\ objs' = [objs EXCEPT ![i] = moved]
               /\ last' = Call("moveUpOption", t)
    /\ UNCHANGED <<votes, stage, self, nextId, pending>>

\* ---------------------------------------------------------------- callers
\* A caller loads (or reloads) the Option object of row i from the table.
Load(i) ==
    /\ \E r \in options : r.id = i /\ objs[i] # r /\ objs' = [objs EXCEPT ![i] = r]
    /\ last' = NoCall
    /\ UNCHANGED <<options, votes, stage, self, nextId, pending>>

\* The scheduler or an administrator moves Vote v to the next stage.
nextStage(v) ==
    /\ \E k \in 1..(Len(STAGES) - 1) :
          stage[v] = STAGES[k] /\ stage' = [stage EXCEPT ![v] = STAGES[k + 1]]
    /\ last' = NoCall
    /\ UNCHANGED <<options, votes, self, objs, nextId, pending>>

\* ------------------------------------------------------- a second caller
\* The methods a second caller runs while the first one calls its own: those
\* whose first statement is the query of renumberOptions.
Concurrent == {"renumberOptions", "addOption"}

\* A second caller enters the method op of Vote v: its transaction begins and
\* its first statement, the query self.option_set.order_by("number") of
\* renumberOptions, fetches the committed rows as Option objects.  A query
\* takes no lock, so the first caller's transactions run and commit before
\* the next statement.  start is what was committed when it began.
fetch(op, v) ==
    /\ pending.op = "none"
    /\ op = "addOption" => nextId <= MaxId
    /\ pending' = [op |-> op, vote |-> v,
                   rows |-> order_by_number(option_set(options, v)),
                   start |-> [options |-> options, votes |-> votes,
                              nextId |-> nextId]]
    /\ last' = NoCall
    /\ UNCHANGED <<options, votes, stage, self, objs, nextId>>

\* The second caller's method runs its remaining statements against what is
\* committed by now and commits, or raises and is rolled back: the loop of
\* renumberOptions saves the objects fetched at the start, and addOption then
\* counts the rows and saves the new Option.  From its first save on, the
\* rows it wrote are locked until it ends, which keeps the first caller's
\* methods, which save every row of the Vote, from running in between.
resume ==
    /\ pending.op # "none"
    /\ pending.op = "addOption" => nextId <= MaxId
    /\ LET v == pending.vote
           t1 == renumberLoop(Begin(options), pending.rows, 1)
           num == count(t1.db, v)
           opt == [id |-> nextId, vote |-> v, number |-> num,
                   name |-> OptionName(num), count |-> 0]
           t == IF pending.op = "addOption" THEN save(t1, opt) ELSE t1
       IN /\ options' = atomic(t, options, t.db)
          /\ nextId' = IF pending.op = "addOption"
                        THEN atomic(t, nextId, nextId + 1) ELSE nextId
          /\ last' = Call(pending.op, t)
    /\ pending' = NoTxn
    /\ UNCHANGED <<votes, stage, self, objs>>

\* The callers load Option objects and call the methods of the Vote.
Next ==
    \/ \E v \in Edited : renumberOptions(v)
    \/ \E v \in Edited : addOption(v)
    \/ \E v \in Edited, i \in Ids : deleteOption(v, i)
    \/ \E v \in Edited, i \in Ids : moveDownOption(v, i)
    \/ \E v \in Edited, i \in Ids : moveUpOption(v, i)
    \/ \E i \in Ids : Load(i)

\* The same, while the Votes move through their stages.
NextStaged ==
    \/ Next
    \/ \E v \in Edited : nextStage(v)

\* Two callers: the first one loads Option objects and adds, deletes and
\* renumbers, each call one transaction; the second one's transaction begins,
\* and ends after any number of the first one's.
NextConcurrent ==
    \/ \E op \in Concurrent, v \in Edited : fetch(op, v)
    \/ resume
    \/ \E v \in Edited : renumberOptions(v)
    \/ \E v \in Edited : addOption(v)
    \/ \E v \in Edited, i \in Ids : deleteOption(v, i)
    \/ \E i \in Ids : Load(i)

\* The Votes move through their stages while Options are added.
NextLifecycle ==
    \/ \E v \in Votes : nextStage(v)
    \/ \E v \in Edited : addOption(v)

\* From Votes numbered 0 .. n-1, by the engine's own methods.
Spec == Init /\ [][Next]_vars

\* From Votes whose numbers were tampered with.
SpecDrift == InitDrift /\ [][Next]_vars

\* From Votes numbered 0 .. n-1, through the stages.
SpecStaged == Init /\ [][NextStaged]_vars

\* From Votes numbered 0 .. n-1, every Vote through its stages.
SpecLifecycle == Init /\ [][NextLifecycle]_vars

\* From Votes numbered 0 .. n-1, by two callers at once.
SpecConcurrent == Init /\ [][NextConcurrent]_vars

\* ------------------------------------------------------------------ types
TypeOK ==
    /\ \A r \in options : r.id \in Ids /\ r.vote \in Votes /\ r.number \in Int
    /\ \A r, q \in options : r.id = q.id => r = q
    /\ nextId \in 1..(MaxId + 1)
    /\ \A r \in options : r.id < nextId

\* ================================================================== claims
\* The rows of Vote v keep the relative order of their numbers from db to db2.
OrderKept(db, db2, v) ==
    \A r, q \in option_set(db, v) : \A r2, q2 \in option_set(db2, v) :
        r.number < q.number /\ r2.id = r.id /\ q2.id = q.id
            => r2.number < q2.number

\* The Option object loaded for row i is what the table holds for row i.
InSync(i) == objs[i] \in options

\* ---------------------------------------------------------------------- C1
\* C1: starting from Votes numbered 0..n-1, after any sequence of completed
\* addOption, deleteOption, moveUpOption and moveDownOption calls no two
\* Options of a Vote share a number and the numbers of a Vote are exactly
\* 0 .. count-1.
C1_Numbering ==
    /\ Unique(options)
    /\ \A v \in Votes : Contiguous(options, v)

\* ---------------------------------------------------------------------- C2
\* C2: 0 <= min_votes <= max_votes <= |options| holds of every Vote row after
\* every completed method call, down to a Vote without Options.
C2_Bounds == \A v \in Votes : Bounded(votes[v], count(options, v))

\* A deleteOption has returned and left Vote 1 without Options, its bounds
\* lowered to 0.
C2_Witness ==
    /\ last.op = "deleteOption" /\ last.err = "none"
    /\ count(options, 1) = 0
    /\ votes[1] = [min_votes |-> 0, max_votes |-> 0]

\* ---------------------------------------------------------------------- C3
\* The rows of Vote v in db2 are those of db, numbered 0 .. count-1 in the
\* order of their numbers in db, every other field as it was.
Renumbered(db, db2, v) ==
    /\ values_list_id(db2, v) = values_list_id(db, v)
    /\ Unique(db2) /\ Contiguous(db2, v)
    /\ OrderKept(db, db2, v)
    /\ \A r \in option_set(db, v) : [r EXCEPT !.number = 0] \in
           {[r2 EXCEPT !.number = 0] : r2 \in option_set(db2, v)}

\* No row of Vote v carries a number below 0.
NonNegative(db, v) == \A r \in option_set(db, v) : r.number >= 0

\* C3 as stated: whatever pairwise distinct numbers the Options carry,
\* renumberOptions returns and leaves them numbered 0 .. count-1 in their
\* previous order.
C3_AnyNumbers ==
    [][\A v \in Edited : last'.op = "renumberOptions" /\ renumberOptions(v) =>
          last'.err = "none" /\ Renumbered(options, options', v)]_vars

\* C3 (amended): when the Options carry pairwise distinct numbers >= 0,
\* renumberOptions returns and leaves them numbered 0 .. count-1 in their
\* previous order.
C3_Renumber ==
    [][\A v \in Edited :
          last'.op = "renumberOptions" /\ NonNegative(options, v) /\ renumberOptions(v) =>
          last'.err = "none" /\ Renumbered(options, options', v)]_vars

\* renumberOptions has returned and a row now carries a smaller number than
\* the object loaded for it before the call: a gap was closed.
C3_Witness ==
    /\ last.op = "renumberOptions" /\ last.err = "none"
    /\ \E r \in option_set(options, 1) :
          objs[r.id].id = r.id /\ objs[r.id].number > r.number

\* ---------------------------------------------------------------------- C4
\* The smaller of two numbers.
Min(a, b) == IF a < b THEN a ELSE b

\* C4: deleteOption(o) with o of the Vote removes exactly o, sets min_votes
\* and max_votes to the smaller of their old value and the new count, and
\* leaves the surviving Options numbered 0 .. count-1 in their previous order.
C4_Delete ==
    [][\A v \in Edited, i \in Ids :
          /\ last'.op = "deleteOption"
          /\ objs[i].id \in values_list_id(options, v)
          /\ deleteOption(v, i)
          =>
            /\ last'.err = "none"
            /\ values_list_id(options', v) = values_list_id(options, v) \ {objs[i].id}
            /\ count(options', v) = count(options, v) - 1
            /\ votes'[v].min_votes = Min(votes[v].min_votes, count(options', v))
            /\ votes'[v].max_votes = Min(votes[v].max_votes, count(options', v))
            /\ Renumbered({r \in options : r.id # objs[i].id}, options', v)
            /\ \A w \in Votes \ {v} : option_set(options', w) = option_set(options, w)]_vars

\* A deleteOption has returned, two Options survive it, and the bounds of the
\* Vote sit at the new count.
C4_Witness ==
    /\ last.op = "deleteOption" /\ last.err = "none"
    /\ count(options, 1) = 2
    /\ votes[1] = [min_votes |-> 2, max_votes |-> 2]
    /\ \E i \in Ids : objs[i] # NoObj /\ objs[i].id = None

\* ---------------------------------------------------------------------- C5
\* The default names, written out.
DefaultNames ==
    <<"Option #1", "Option #2", "Option #3", "Option #4", "Option #5", "Option #6">>

\* addOption has added one Option numbered n and named "Option #<n+1>" to the
\* n Options of Vote v, which are numbered 0 .. n-1 in their previous order.
Appended(db, db2, v) ==
    LET n == count(db, v)
        new == {r \in option_set(db2, v) : r.id \notin values_list_id(db, v)}
    IN /\ count(db2, v) = n + 1
       /\ Cardinality(new) = 1
       /\ \A r \in new : r.number = n /\ r.name = DefaultNames[n + 1]
       /\ Renumbered(db, db2 \ new, v)

\* C5 as stated: whatever pairwise distinct numbers the n Options carry,
\* addOption leaves them numbered 0 .. n-1 in their previous order and adds
\* one Option with number n and name "Option #<n+1>".
C5_AnyNumbers ==
    [][\A v \in Edited : last'.op = "addOption" /\ addOption(v) =>
          last'.err = "none" /\ Appended(options, options', v)]_vars

\* C5 (amended): the same, when the n Options carry pairwise distinct
\* numbers >= 0.
C5_Add ==
    [][\A v \in Edited :
          last'.op = "addOption" /\ NonNegative(options, v) /\ addOption(v) =>
          last'.err = "none" /\ Appended(options, options', v)]_vars

\* addOption has returned on a Vote whose numbers had drifted: the new Option
\* closes the numbering and a row carries a smaller number than the object
\* loaded for it before the call.
C5_Witness ==
    /\ last.op = "addOption" /\ last.err = "none"
    /\ \E r \in option_set(options, 1) :
          r.number = count(options, 1) - 1 /\ r.name = DefaultNames[r.number + 1]
    /\ \E r \in option_set(options, 1) :
          objs[r.id].id = r.id /\ objs[r.id].number > r.number

\* ---------------------------------------------------------------------- C6
\* The object loaded for row i is in step with its row, which is a row of
\* Vote v, and Vote v is numbered 0 .. count-1.
Clean(v, i) ==
    /\ InSync(i) /\ objs[i].vote = v
    /\ Unique(options) /\ Contiguous(options, v)

\* db2 is db with the numbers k and k + d of Vote v exchanged, nothing else
\* changed.
Swapped(db, db2, v, k, d) ==
    db2 = { IF r.vote = v /\ r.number = k THEN [r EXCEPT !.number = k + d]
            ELSE IF r.vote = v /\ r.number = k + d THEN [r EXCEPT !.number = k]
            ELSE r : r \in db }

\* C6: in a Vote numbered 0..n-1, moveUpOption on the Option at number
\* k < n-1 exchanges the numbers k and k+1, moveDownOption on the Option at
\* number k > 0 exchanges the numbers k and k-1, and no other row changes.
C6_Swap ==
    [][\A v \in Edited, i \in Ids :
          /\ Clean(v, i) /\ objs[i].number < count(options, v) - 1 /\ moveUpOption(v, i)
                => last'.err = "none" /\ Swapped(options, options', v, objs[i].number, 1)
          /\ Clean(v, i) /\ objs[i].number > 0 /\ moveDownOption(v, i)
                => last'.err = "none" /\ Swapped(options, options', v, objs[i].number, 0 - 1)]_vars

\* ---------------------------------------------------------------------- C7
\* The object loaded for row i is not the object of a row of Vote v: the row
\* belongs to another Vote, or it was deleted.
Foreign(v, i) ==
    /\ objs[i] # NoObj
    /\ ~ \E r \in options : r.id = objs[i].id /\ r.vote = v

\* C7: deleteOption, moveUpOption and moveDownOption called with an Option
\* that is not in the Vote's option set raise ValueError before any write:
\* no row, no Vote and no object in memory changes.
C7_Rejects ==
    [][\A v \in Edited, i \in Ids :
          /\ last'.op \in {"deleteOption", "moveUpOption", "moveDownOption"}
          /\ Foreign(v, i)
          /\ (deleteOption(v, i) \/ moveUpOption(v, i) \/ moveDownOption(v, i))
          =>
             /\ last'.err = "ValueError" /\ last'.writes = 0
             /\ options' = options /\ votes' = votes
             /\ self' = self /\ objs' = objs]_vars

\* deleteOption has raised ValueError while every Option object the caller
\* holds is the object of a row of Vote 2: it was called with an Option of
\* another Vote.
C7_Witness ==
    /\ last.op = "deleteOption" /\ last.err = "ValueError"
    /\ \E i \in Ids : objs[i] # NoObj
    /\ \A i \in Ids : objs[i] # NoObj => InSync(i) /\ objs[i].vote = 2

\* ---------------------------------------------------------------------- C8
\* The call is a move at the boundary: moveDownOption on the Option at
\* number 0, or moveUpOption on the Option at number count-1, of a Vote
\* numbered 0 .. count-1.
BoundaryMove(v, i) ==
    \/ Clean(v, i) /\ objs[i].number = 0 /\ moveDownOption(v, i)
    \/ Clean(v, i) /\ objs[i].number = count(options, v) - 1 /\ moveUpOption(v, i)

C9_RolledBack ==
    [][last'.err # "none" =>
          options' = options /\ votes' = votes /\ stage' = stage /\ nextId' = nextId]_vars

\* A move has raised IntegrityError on a Vote whose numbers are >= 0 but not
\* 0 .. count-1: its renumbering had rewritten rows before the swap failed.
C9_Witness ==
    /\ last.op \in {"moveUpOption", "moveDownOption"}
    /\ last.err = "IntegrityError"
    /\ NonNegative(options, 1) /\ ~ Contiguous(options, 1)

\* --------------------------------------------------------------------- C10
\* C10: while the stage of a Vote is not INIT, no call changes the set of its
\* Options, their numbers, or its min_votes and max_votes.
C10_ReadOnly ==
    [][\A v \in Votes : stage[v] # INIT =>
          option_set(options', v) = option_set(options, v) /\ votes'[v] = votes[v]]_vars

\* --------------------------------------------------------------------- C11
\* What is committed: the tables and the next primary key.
Committed == [options |-> options, votes |-> votes, nextId |-> nextId]

\* Vote.renumberOptions of Vote v run alone on the committed state st: whether
\* it returned, and what is committed after it.
renumberOptionsOn(st, v) ==
    LET t == renumber(Begin(st.options), v)
    IN [ok |-> t.err = "none",
        st |-> [st EXCEPT !.options = atomic(t, st.options, t.db)]]

\* Vote.addOption of Vote v run alone on the committed state st.
addOptionOn(st, v) ==
    LET t1 == renumber(Begin(st.options), v)
        num == count(t1.db, v)
        opt == [id |-> st.nextId, vote |-> v, number |-> num,
                name |-> OptionName(num), count |-> 0]
        t == save(t1, opt)
    IN [ok |-> t.err = "none",
        st |-> [st EXCEPT !.options = atomic(t, st.options, t.db),
                          !.nextId = atomic(t, st.nextId, st.nextId + 1)]]

\* Vote.deleteOption of Vote v run alone on the committed state st, with the
\* Option of row id.
deleteOptionOn(st, v, id) ==
    LET n == count(st.options, v) - 1
        m == clamp(st.votes[v], n)
        t == renumber(Begin({r \in st.options : r.id # id}), v)
    IN IF id \notin values_list_id(st.options, v) THEN [ok |-> FALSE, st |-> st]
       ELSE [ok |-> t.err = "none",
             st |-> [st EXCEPT !.options = atomic(t, st.options, t.db),
                               !.votes = atomic(t, st.votes, [st.votes EXCEPT ![v] = m])]]

\* The second caller's method op of Vote v run alone on the committed state st.
pendingOn(op, st, v) ==
    IF op = "addOption" THEN addOptionOn(st, v) ELSE renumberOptionsOn(st, v)

\* The method run alone takes the committed state s0 to s1.
Takes(r, s1) == r.ok /\ r.st = s1

\* One call of the first caller committed between s0 and s1, and the second
\* caller's method op run alone before it leads to s2.
SecondFirst(op, v, s0, s1, s2) ==
    LET mid == pendingOn(op, s0, v)
    IN mid.ok /\
       \/ Takes(renumberOptionsOn(s0, v), s1) /\ Takes(renumberOptionsOn(mid.st, v), s2)
       \/ Takes(addOptionOn(s0, v), s1) /\ Takes(addOptionOn(mid.st, v), s2)
       \/ \E id \in Ids :
             Takes(deleteOptionOn(s0, v, id), s1) /\ Takes(deleteOptionOn(mid.st, v, id), s2)

\* C11: when a second caller's method runs as one transaction while the
\* first caller's transactions commit, what is committed after it commits is
\* what some serial execution of the committed calls leaves (the second
\* caller's after the first caller's, or before it), and the Vote is numbered
\* 0 .. count-1 without a duplicate.
C11_Serializable ==
    [][pending.op # "none" /\ pending'.op = "none" /\ last'.err = "none" =>
          /\ Unique(options') /\ Contiguous(options', pending.vote)
          /\ \/ Takes(pendingOn(pending.op, Committed, pending.vote), Committed')
             \/ SecondFirst(pending.op, pending.vote, pending.start,
                            Committed, Committed')]_vars

\* Run alone, the methods of the first caller do what the functions above say.
MethodsAgree ==
    [][/\ \A v \in Edited : renumberOptions(v) =>
              Committed' = renumberOptionsOn(Committed, v).st
       /\ \A v \in Edited : addOption(v) =>
              Committed' = addOptionOn(Committed, v).st
       /\ \A v \in Edited, i \in Ids : deleteOption(v, i) =>
              Committed' = deleteOptionOn(Committed, v, objs[i].id).st]_vars

\* --------------------------------------------------------------------- C12
\* C12: renumberOptions is idempotent in its result: after a call of
\* renumberOptions, a second call right after it leaves every Option with the
\* number the first call left it with (and every other field as it is).
C12_Idempotent ==
    [][\A v \in Edited : last'.op = "renumberOptions" /\ renumberOptions(v) =>
          renumberOptionsOn(Committed', v).st = Committed']_vars

\* renumberOptions has returned after writing two rows, and closed a gap: an
\* Option object loaded before the call carries a number above the range
\* 0 .. count-1 its row is now in.
C12_Witness ==
    /\ last = [op |-> "renumberOptions", err |-> "none", writes |-> 2]
    /\ Contiguous(options, 1)
    /\ \E r \in option_set(options, 1) :
          objs[r.id].id = r.id /\ objs[r.id].number >= count(options, 1)

\* --------------------------------------------------------------------- C13
\* The rows of Vote v whose number differs from db to db2.
Renumbers(db, db2, v) ==
    {r \in option_set(db, v) : \E r2 \in db2 : r2.id = r.id /\ r2.number # r.number}

\* C13: renumberOptions writes only the Options whose number changes: as
\* many writes as numbers changed, and none at all on a Vote that is already
\* numbered 0 .. n-1.
C13_WritesChanged ==
    [][\A v \in Edited : last'.op = "renumberOptions" /\ renumberOptions(v) =>
          /\ last'.writes = Cardinality(Renumbers(options, options', v))
          /\ Unique(options) /\ Contiguous(options, v) => last'.writes = 0]_vars

\* --------------------------------------------------------------------- C14
\* C14: renumberOptions, addOption, deleteOption, moveUpOption and
\* moveDownOption leave the name, the count (tally) and the Vote of every
\* Option that was there before the call and is there after it as they were:
\* of such a row only the number is rewritten.
C14_Frame ==
    [][last'.op # "none" =>
          \A r \in options : \A r2 \in options' :
              r2.id = r.id => r2 = [r EXCEPT !.number = r2.number]]_vars

\* deleteOption has returned and the second row of the initial table is
\* numbered 0 and still carries its name and its tally.
C14_Witness ==
    /\ last.op = "deleteOption" /\ last.err = "none"
    /\ [id |-> 2, vote |-> 1, number |-> 0,
        name |-> InitName(2), count |-> InitCount(2)] \in options

\* --------------------------------------------------------------------- C15
\* C15: canBeModified() is true of a Vote whose stage is INIT ("I") and false
\* of a Vote whose stage is STAGED ("S"), OPEN ("O"), CLOSE ("C") or
\* PUBLIC ("P").
C15_Modifiable ==
    \A v \in Votes :
        /\ stage[v] = "I" => canBeModified(v)
        /\ stage[v] \in {"S", "O", "C", "P"} => ~ canBeModified(v)

\* One Vote is still in INIT and can be modified, the other one has gone
\* through every stage to PUBLIC and cannot.
C15_Witness ==
    /\ stage[1] = "P" /\ ~ canBeModified(1)
    /\ stage[2] = "I" /\ canBeModified(2)

\* --------------------------------------------------------------------- C16
\* The rank of the row r among the rows of Vote v: how many of them carry a
\* smaller number.
Rank(db, v, r) == Cardinality({q \in option_set(db, v) : q.number < r.number})

\* db2 numbers the rows of Vote v in db by their ranks, with the row id moved
\* by d ranks and exchanged with the row that was there, or left at its rank
\* if no row was there.
RankMoved(db, db2, v, id, d) ==
    LET k == Rank(db, v, CHOOSE r \in option_set(db, v) : r.id = id)
        to == IF k + d \in 0..(count(db, v) - 1) THEN k + d ELSE k
    IN /\ values_list_id(db2, v) = values_list_id(db, v)
       /\ \A r \in option_set(db, v) : \A r2 \in option_set(db2, v) :
             r2.id = r.id =>
                r2.number = IF r.id = id THEN to
                            ELSE IF Rank(db, v, r) = to THEN k
                            ELSE Rank(db, v, r)

\* C16: on a Vote whose Options carry pairwise distinct numbers >= 0,
\* contiguous or not, a move of a freshly loaded Option of the Vote that
\* returns leaves the Options numbered by rank, 0 .. n-1, with the moved one
\* exchanged with its neighbour in rank (moveUpOption: the next, moveDownOption:
\* the previous), or left in place if it has none.
C16_RankSwap ==
    [][\A v \in Edited, i \in Ids :
          /\ last'.op \in {"moveUpOption", "moveDownOption"} /\ last'.err = "none"
          /\ InSync(i) /\ objs[i].vote = v
          /\ Unique(options) /\ NonNegative(options, v)
          =>
          /\ moveUpOption(v, i) => RankMoved(options, options', v, i, 1)
          /\ moveDownOption(v, i) => RankMoved(options, options', v, i, 0 - 1)]_vars

\* --------------------------------------------------------------------- C17
\* C17: the two saves of the swap in moveUpOption and moveDownOption keep
\* (vote, number) unique one by one: between the save of the neighbour and the
\* save of the moved Option no two Options hold the same number, so that a
\* move of a freshly loaded Option of a Vote numbered 0 .. n-1 never raises
\* IntegrityError.
C17_SwapUnique ==
    [][\A v \in Edited, i \in Ids :
          /\ last'.op \in {"moveUpOption", "moveDownOption"}
          /\ Clean(v, i)
          /\ (moveUpOption(v, i) \/ moveDownOption(v, i))
          => last'.err # "IntegrityError"]_vars

\* --------------------------------------------------------------------- C18
\* The row of Vote v that the Option object loaded for row i belongs to
\* carries the number n.
RowAt(v, i, n) ==
    \E r \in option_set(options, v) : r.id = objs[i].id /\ r.number = n

\* C18: in every state reached from Votes numbered 0 .. n-1 by the methods
\* of the Vote alone, where the Vote is numbered 0 .. n-1, a move of an Option
\* of the Vote that is not at the boundary (neither the row nor the object
\* carries the number 0 for moveDownOption, count-1 for moveUpOption) finds
\* the neighbour it looks up: it does not raise IndexError.
C18_NeighbourFound ==
    [][\A v \in Edited, i \in Ids :
          /\ last'.op \in {"moveUpOption", "moveDownOption"}
          /\ objs[i].id \in values_list_id(options, v)
          /\ Unique(options) /\ Contiguous(options, v)
          =>
          /\ (/\ ~ RowAt(v, i, count(options, v) - 1)
              /\ objs[i].number # count(options, v) - 1
              /\ moveUpOption(v, i)) => last'.err # "IndexError"
          /\ (/\ ~ RowAt(v, i, 0)
              /\ objs[i].number # 0
              /\ moveDownOption(v, i)) => last'.err # "IndexError"]_vars

\* --------------------------------------------------------------------- C19
\* Each save of the loop of renumberOptions on the rows of Vote v in db goes
\* through and leaves (vote, number) unique: the k-th save, which writes
\* k - 1, finds that number held by no row still to be processed.
EachSaveUnique(db, v) ==
    LET seq == order_by_number(option_set(db, v))
    IN \A k \in 1..Len(seq) :
          LET t == renumberLoop(Begin(db), SubSeq(seq, 1, k), 1)
          IN /\ t.err = "none" /\ t.writes = k /\ Unique(t.db)
             /\ \A j \in (k + 1)..Len(seq) : seq[j].number # k - 1

\* C19: when renumberOptions runs on a Vote whose Options carry pairwise
\* distinct numbers >= 0, (vote, number) uniqueness holds after each single
\* save of the loop, and all of them are made: writing 0, 1, 2, ... in
\* ascending order of the numbers never writes a number that an Option not
\* yet processed still holds.
C19_EachSave ==
    [][\A v \in Edited :
          /\ last'.op = "renumberOptions"
          /\ Unique(options) /\ NonNegative(options, v)
          /\ renumberOptions(v)
          => EachSaveUnique(options, v) /\ last'.writes = count(options, v)]_vars

\* renumberOptions has rewritten the numbers 1, 2 of the two Options loaded
\* before the call as 0, 1: its second save wrote the number the first
\* Option held until the first save.
C19_Witness ==
    /\ last = [op |-> "renumberOptions", err |-> "none", writes |-> 2]
    /\ objs[1].number = 1 /\ objs[2].number = 2
    /\ \A i \in 1..2 : [objs[i] EXCEPT !.number = i - 1] \in option_set(options, 1)

\* --------------------------------------------------------------------- C20
\* The Option object loaded for row i is an object of a row of Vote v, with a
\* number that is no longer the row's.
OutOfDate(v, i) ==
    /\ objs[i].id \in values_list_id(options, v)
    /\ ~ RowAt(v, i, objs[i].number)

\* C20: a move called with an Option object whose number is out of date acts
\* on the rank its row has in the table: if it returns, the row was exchanged
\* with the neighbour of its persisted rank, or left in place at the
\* boundary, no other row's number was touched, and the Vote is numbered
\* 0 .. n-1.
C20_PersistedRank ==
    [][\A v \in Edited, i \in Ids :
          /\ last'.op \in {"moveUpOption", "moveDownOption"} /\ last'.err = "none"
          /\ OutOfDate(v, i)
          /\ Unique(options) /\ Contiguous(options, v)
          =>
          /\ moveUpOption(v, i) =>
                /\ RankMoved(options, options', v, objs[i].id, 1)
                /\ Unique(options') /\ Contiguous(options', v)
          /\ moveDownOption(v, i) =>
                /\ RankMoved(options, options', v, objs[i].id, 0 - 1)
                /\ Unique(options') /\ Contiguous(options', v)]_vars

====
